---- MODULE Spec2Model ----
(***************************************************************************)
(* A model of src/diffuzers/inpainting.py: the Inpainting dataclass, its   *)
(* scheduler selection, generate_image and the Streamlit app() script.     *)
(*                                                                         *)
(* Python str values are TLA+ strings; the JSON text json.dumps builds is  *)
(* a TLA+ string built character by character (with escaping), so that     *)
(* decoding it again is a real computation.  guidance_scale is a float on  *)
(* the slider's 0.5 grid (line 136) and is held in half units: 15 is 7.5.  *)
(* One generate_image call is a sequence of steps (pc) because an          *)
(* exception can leave it between any two of its calls.                    *)
(***************************************************************************)
EXTENDS Integers, Sequences, FiniteSets, TLC

VARIABLES
    self,            \* the Inpainting instance (fields set by __post_init__)
    disk,            \* number of image files written under output_path
    pc,              \* position of the single thread of control ("idle", a line of
                     \* generate_image or app, "done")
    caller,          \* who called generate_image: "direct" or "app"
    args,            \* arguments of the generate_image call in progress
    generator,       \* local `generator` of generate_image
    num_images,      \* local `num_images` of generate_image (rebound on mps)
    output_images,   \* local `output_images`
    metadata,        \* local `metadata` after json.dumps (line 98)
    _metadata,       \* local `_metadata`, the PngInfo object (lines 99-100)
    pipeline_calls,  \* keyword arguments of each self.pipeline(...) invocation of this call
    save_calls,      \* keyword arguments of each utils.save_images(...) invocation of this call
    cleanup_calls,   \* number of torch.cuda.empty_cache(); gc.collect() runs in this call
    outcome,         \* how the last operation ended: "none", "running", "returned", "raised"
    result,          \* <<>> or <<value returned by generate_image>>
    ui,              \* what the user did in the current run of app()
    app_frame,       \* locals of app(): pil_image, img_height, img_width, mask_pil
    gen_calls,       \* generate_image invocations made by the current run of app()
    displayed        \* <<>> or <<arguments of utils.display_and_download_images>>

vars == <<self, disk, pc, caller, args, generator, num_images, output_images,
          metadata, _metadata, pipeline_calls, save_calls, cleanup_calls,
          outcome, result, ui, app_frame, gen_calls, displayed>>

(***************************************************************************)
(* Bounds of the model.                                                    *)
(***************************************************************************)
MaxDim == 2      \* uploaded images are 1..MaxDim pixels wide and high
MaxSaved == 2    \* no new operation starts once this many files are on disk

None == [none |-> TRUE]

(***************************************************************************)
(* Input domains.                                                          *)
(***************************************************************************)
Devices == {"cuda", "cpu", "mps"}
Prompts == {"a cat", "say \"hi\" \\o/"}
NegativePrompts == {"", "blur\"ry"}
GuidanceScales == {2, 15}          \* 1.0 and 7.5, in half units
StepCounts == {1, 50}
Seeds == {1, 42}
ImageCounts == {1, 2}
Dims == 1..MaxDim
UnknownScheduler == "NoSuchScheduler"

\* canvas size given to st_canvas
canvas_height == 768
canvas_width == 768

(***************************************************************************)
(* PIL images: mode, width, height and an abstract tag for the pixels.     *)
(***************************************************************************)
Images == [mode : {"RGB"}, width : Dims, height : Dims, data : {"upload"}]

\* PIL: Image.size is (width, height)
Image_size(img) == <<img.width, img.height>>

\* PIL: Image.resize(size) takes size = (width, height)
Image_resize(img, size) == [img EXCEPT !.width = size[1], !.height = size[2]]

Image_convert(img, mode) == [img EXCEPT !.mode = mode]

\* PIL: Image.fromarray of a 2-D uint8 array of shape (rows, cols): mode "L",
\* width = cols, height = rows
Image_fromarray(shape, tag) ==
    [mode |-> "L", width |-> shape[2], height |-> shape[1], data |-> tag]

(***************************************************************************)
(* json.dumps (line 98).  Python values are tagged: a str, an int, or a    *)
(* float held in half units.  A dict is the sequence of its items in       *)
(* insertion order.                                                        *)
(***************************************************************************)
PyStr(s) == [type |-> "str", str |-> s, num |-> 0]
PyInt(n) == [type |-> "int", str |-> "", num |-> n]
PyFloat(h) == [type |-> "float", str |-> "", num |-> h]

Digit(d) == SubSeq("0123456789", d + 1, d + 1)

RECURSIVE int_repr(_)
int_repr(n) == IF n < 10 THEN Digit(n) ELSE int_repr(n \div 10) \o Digit(n % 10)

\* float.__repr__ on the 0.5 grid: 7.5 -> "7.5", 1.0 -> "1.0"
float_repr(h) == int_repr(h \div 2) \o (IF h % 2 = 0 THEN ".0" ELSE ".5")

\* json.encoder.py_encode_basestring_ascii on printable ASCII: the quote and
\* the backslash are escaped, the text is wrapped in quotes
RECURSIVE escape_chars(_)
escape_chars(s) ==
    IF s = "" THEN ""
    ELSE LET c == Head(s)
         IN  (IF c = "\"" THEN "\\\"" ELSE IF c = "\\" THEN "\\\\" ELSE c)
                 \o escape_chars(Tail(s))

encode_basestring(s) == "\"" \o escape_chars(s) \o "\""

json_encode_value(v) ==
    CASE v.type = "str" -> encode_basestring(v.str)
      [] v.type = "int" -> int_repr(v.num)
      [] v.type = "float" -> float_repr(v.num)

RECURSIVE json_encode_items(_)
json_encode_items(items) ==
    IF items = <<>> THEN ""
    ELSE encode_basestring(Head(items)[1]) \o ": " \o json_encode_value(Head(items)[2])
             \o (IF Tail(items) = <<>> THEN "" ELSE ", ")
             \o json_encode_items(Tail(items))

json_dumps(items) == "{" \o json_encode_items(items) \o "}"

(***************************************************************************)
(* json.loads, the decoder the round-trip claim reads the record with: a   *)
(* character-level parser of an object whose values are strings and        *)
(* numbers.  It returns [ok, items]; ok is FALSE on malformed text.        *)
(***************************************************************************)
CharAt(t, i) == IF i >= 1 /\ i <= Len(t) THEN SubSeq(t, i, i) ELSE ""

IsDigitChar(c) == \E d \in 0..9 : Digit(d) = c

DigitValue(c) == CHOOSE d \in 0..9 : Digit(d) = c

\* t[i] is the first character after an opening quote
RECURSIVE scan_string(_, _, _)
scan_string(t, i, acc) ==
    LET c == CharAt(t, i)
    IN  IF c = "" THEN [ok |-> FALSE, val |-> PyStr(acc), next |-> i]
        ELSE IF c = "\"" THEN [ok |-> TRUE, val |-> PyStr(acc), next |-> i + 1]
        ELSE IF c = "\\"
             THEN IF CharAt(t, i + 1) \in {"\"", "\\"}
                  THEN scan_string(t, i + 2, acc \o CharAt(t, i + 1))
                  ELSE [ok |-> FALSE, val |-> PyStr(acc), next |-> i]
        ELSE scan_string(t, i + 1, acc \o c)

RECURSIVE scan_digits(_, _, _)
scan_digits(t, i, acc) ==
    IF IsDigitChar(CharAt(t, i))
    THEN scan_digits(t, i + 1, 10 * acc + DigitValue(CharAt(t, i)))
    ELSE [num |-> acc, next |-> i]

\* an integer literal is an int; digits "." digit is a float (here on the 0.5 grid)
scan_number(t, i) ==
    LET whole == scan_digits(t, i, 0)
    IN  IF whole.next = i THEN [ok |-> FALSE, val |-> PyInt(0), next |-> i]
        ELSE IF CharAt(t, whole.next) # "."
             THEN [ok |-> TRUE, val |-> PyInt(whole.num), next |-> whole.next]
        ELSE LET frac == CharAt(t, whole.next + 1)
             IN  [ok   |-> frac \in {"0", "5"},
                  val  |-> PyFloat(2 * whole.num + (IF frac = "5" THEN 1 ELSE 0)),
                  next |-> whole.next + 2]

scan_value(t, i) ==
    IF CharAt(t, i) = "\"" THEN scan_string(t, i + 1, "") ELSE scan_number(t, i)

\* t[i] is the opening quote of a key
RECURSIVE scan_members(_, _, _)
scan_members(t, i, acc) ==
    IF CharAt(t, i) # "\"" THEN [ok |-> FALSE, items |-> acc]
    ELSE LET k == scan_string(t, i + 1, "")
         IN  IF ~k.ok \/ SubSeq(t, k.next, k.next + 1) # ": "
             THEN [ok |-> FALSE, items |-> acc]
             ELSE LET v == scan_value(t, k.next + 2)
                      got == Append(acc, <<k.val.str, v.val>>)
                  IN  IF ~v.ok THEN [ok |-> FALSE, items |-> acc]
                      ELSE IF CharAt(t, v.next) = "}"
                           THEN [ok |-> v.next = Len(t), items |-> got]
                      ELSE IF SubSeq(t, v.next, v.next + 1) = ", "
                           THEN scan_members(t, v.next + 2, got)
                      ELSE [ok |-> FALSE, items |-> acc]

json_loads(t) ==
    IF CharAt(t, 1) # "{" THEN [ok |-> FALSE, items |-> <<>>]
    ELSE IF t = "{}" THEN [ok |-> TRUE, items |-> <<>>]
    ELSE scan_members(t, 2, <<>>)

\* d[key] on a decoded object: the value of the last item with that key
HasKey(items, key) == \E i \in 1..Len(items) : items[i][1] = key
GetItem(items, key) ==
    items[CHOOSE i \in 1..Len(items) :
              /\ items[i][1] = key
              /\ \A j \in (i + 1)..Len(items) : items[j][1] # key][2]


(***************************************************************************)
(* Schedulers of the external pipeline library, as far as _set_scheduler   *)
(* uses them.  A scheduler class is known by its __name__; it accepts      *)
(* some configuration keys and has a default for each.  from_config keeps  *)
(* the keys of the given config the class accepts, takes the class default *)
(* for the accepted keys the config lacks, and drops the others.           *)
(***************************************************************************)
EulerName == "EulerAncestralDiscreteScheduler"

\* pipeline.scheduler.compatibles (line 36), in the order the pipeline reports
CompatibleClasses == <<"PNDMScheduler", "DDIMScheduler", EulerName>>

SchedulerDefaults(cls) ==
    CASE cls = "PNDMScheduler" -> [num_train_timesteps |-> 1000, skip_prk_steps |-> FALSE]
      [] cls = "DDIMScheduler" -> [num_train_timesteps |-> 1000, clip_sample |-> TRUE]
      [] OTHER -> [num_train_timesteps |-> 1000]

from_config(cls, config) ==
    [class  |-> cls,
     config |-> [k \in (DOMAIN SchedulerDefaults(cls)) \cup {"_class_name"} |->
                    IF k = "_class_name" THEN cls
                    ELSE IF k \in DOMAIN config THEN config[k]
                    ELSE SchedulerDefaults(cls)[k]]]

\* the scheduler the pretrained inpainting pipeline is loaded with
LoadedScheduler ==
    [class  |-> "PNDMScheduler",
     config |-> [k \in {"_class_name", "num_train_timesteps", "skip_prk_steps"} |->
                    CASE k = "_class_name" -> "PNDMScheduler"
                      [] k = "num_train_timesteps" -> 1000
                      [] k = "skip_prk_steps" -> TRUE]]

\* StableDiffusionInpaintPipeline.from_pretrained(model, torch_dtype=...)
from_pretrained(model, device) ==
    [id             |-> model,
     torch_dtype    |-> IF device = "cuda" THEN "float16" ELSE "float32",
     device         |-> device,
     safety_checker |-> "no_safety_checker",
     attention_slicing |-> device = "mps",
     scheduler      |-> LoadedScheduler]

Range(seq) == {seq[i] : i \in 1..Len(seq)}

\* Inpainting(model, device, output_path) after __post_init__
Inpainting(model, device, output_path) ==
    LET pipeline == from_pretrained(model, device)
    IN  [model                  |-> model,
         device                 |-> device,
         output_path            |-> output_path,
         pipeline               |-> pipeline,
         _compatible_schedulers |-> CompatibleClasses,
         scheduler_config       |-> pipeline.scheduler.config,
         compatible_schedulers  |-> [n \in Range(CompatibleClasses) |-> n]]

\* _set_scheduler building the new scheduler from the configuration of the
\* scheduler the pipeline holds now, instead of the one stored at construction
_set_scheduler_from_current(obj, scheduler_name) ==
    IF scheduler_name \notin DOMAIN obj.compatible_schedulers
    THEN [raised |-> TRUE, self |-> obj]
    ELSE [raised |-> FALSE,
          self   |-> [obj EXCEPT !.pipeline.scheduler =
                         from_config(obj.compatible_schedulers[scheduler_name],
                                     obj.pipeline.scheduler.config)]]

\* _set_scheduler building the scheduler and never assigning it
_set_scheduler_unassigned(obj, scheduler_name) ==
    [raised |-> scheduler_name \notin DOMAIN obj.compatible_schedulers, self |-> obj]

\* _set_scheduler also storing the new scheduler's configuration
_set_scheduler_stores_config(obj, scheduler_name) ==
    IF scheduler_name \notin DOMAIN obj.compatible_schedulers
    THEN [raised |-> TRUE, self |-> obj]
    ELSE LET scheduler == from_config(obj.compatible_schedulers[scheduler_name],
                                      obj.scheduler_config)
         IN  [raised |-> FALSE,
              self   |-> [obj EXCEPT !.pipeline.scheduler = scheduler,
                                     !.scheduler_config = scheduler.config]]

\* _set_scheduler looking the name up with a fallback to the current scheduler
\* instead of raising
_set_scheduler_lenient(obj, scheduler_name) ==
    IF scheduler_name \notin DOMAIN obj.compatible_schedulers
    THEN [raised |-> FALSE, self |-> obj]
    ELSE [raised |-> FALSE,
          self   |-> [obj EXCEPT !.pipeline.scheduler =
                         from_config(obj.compatible_schedulers[scheduler_name],
                                     obj.scheduler_config)]]

\* _set_scheduler: a KeyError for a name outside compatible_schedulers is raised
\* before anything is assigned
_set_scheduler(obj, scheduler_name) ==
    IF scheduler_name \notin DOMAIN obj.compatible_schedulers
    THEN [raised |-> TRUE, self |-> obj]
    ELSE [raised |-> FALSE,
          self   |-> [obj EXCEPT !.pipeline.scheduler =
                         from_config(obj.compatible_schedulers[scheduler_name],
                                     obj.scheduler_config)]]

(***************************************************************************)
(* generate_image                                                          *)
(***************************************************************************)
\* lines 72-76: the seeded generator and the image count
make_generator(device, seed) ==
    IF device = "mps"
    THEN [kind |-> "default", device |-> "cpu", seed |-> seed]
    ELSE [kind |-> "new", device |-> device, seed |-> seed]

image_count(device, n) == IF device = "mps" THEN 1 ELSE n

\* the pipeline call passing the source image as the mask too
pipeline_kwargs_image_as_mask(a, gen, n) ==
    [prompt                |-> a.prompt,
     negative_prompt       |-> a.negative_prompt,
     image                 |-> a.image,
     mask_image            |-> a.image,
     num_inference_steps   |-> a.steps,
     guidance_scale        |-> a.guidance_scale,
     num_images_per_prompt |-> n,
     generator             |-> gen,
     height                |-> a.height,
     width                 |-> a.width]

\* lines 78-89: the keyword arguments of self.pipeline(...)
pipeline_kwargs(a, gen, n) ==
    [prompt                |-> a.prompt,
     negative_prompt       |-> a.negative_prompt,
     image                 |-> a.image,
     mask_image            |-> a.mask,
     num_inference_steps   |-> a.steps,
     guidance_scale        |-> a.guidance_scale,
     num_images_per_prompt |-> n,
     generator             |-> gen,
     height                |-> a.height,
     width                 |-> a.width]

\* the .images of the pipeline's output: num_images_per_prompt images of the
\* requested width and height
pipeline_images(kw) ==
    [i \in 1..kw.num_images_per_prompt |->
        [mode |-> "RGB", width |-> kw.width, height |-> kw.height, data |-> "generated"]]

\* the metadata dict recording the step count under "seed" as well
metadata_dict_steps_as_seed(a) ==
    << <<"prompt", PyStr(a.prompt)>>,
       <<"negative_prompt", PyStr(a.negative_prompt)>>,
       <<"guidance_scale", PyFloat(a.guidance_scale)>>,
       <<"scheduler", PyStr(a.scheduler)>>,
       <<"steps", PyInt(a.steps)>>,
       <<"seed", PyInt(a.steps)>> >>

\* lines 90-97: the metadata dict, its items in insertion order
metadata_dict(a) ==
    << <<"prompt", PyStr(a.prompt)>>,
       <<"negative_prompt", PyStr(a.negative_prompt)>>,
       <<"guidance_scale", PyFloat(a.guidance_scale)>>,
       <<"scheduler", PyStr(a.scheduler)>>,
       <<"steps", PyInt(a.steps)>>,
       <<"seed", PyInt(a.seed)>> >>

\* lines 99-100: PngInfo() with one text chunk
PngInfo_add_text(info, key, value) == Append(info, <<key, value>>)

\* lines 102-107: the keyword arguments of utils.save_images(...)
save_images_kwargs(images, text, obj) ==
    [images |-> images, module |-> "inpainting", metadata |-> text,
     output_path |-> obj.output_path]

(***************************************************************************)
(* State after construction.                                               *)
(***************************************************************************)
NoCallState ==
    /\ caller = "none"
    /\ args = None
    /\ generator = None
    /\ num_images = 0
    /\ output_images = <<>>
    /\ metadata = ""
    /\ _metadata = <<>>
    /\ pipeline_calls = <<>>
    /\ save_calls = <<>>
    /\ cleanup_calls = 0
    /\ result = <<>>

Init ==
    /\ \E device \in Devices :
           self = Inpainting("runwayml/stable-diffusion-inpainting", device, "outputs")
    /\ disk = 0
    /\ pc = "idle"
    /\ outcome = "none"
    /\ NoCallState
    /\ ui = None
    /\ app_frame = None
    /\ gen_calls = 0
    /\ displayed = <<>>

\* no generate_image call is in progress in the next state
NoCallNext ==
    /\ caller' = "none"
    /\ args' = None
    /\ generator' = None
    /\ num_images' = 0
    /\ output_images' = <<>>
    /\ metadata' = ""
    /\ _metadata' = <<>>
    /\ pipeline_calls' = <<>>
    /\ save_calls' = <<>>
    /\ cleanup_calls' = 0
    /\ result' = <<>>

\* the locals of a generate_image call that begins with arguments a
EnterGenerateImage(a, who) ==
    /\ pc' = "set_scheduler"
    /\ caller' = who
    /\ args' = a
    /\ generator' = None
    /\ num_images' = a.num_images
    /\ output_images' = <<>>
    /\ metadata' = ""
    /\ _metadata' = <<>>
    /\ pipeline_calls' = <<>>
    /\ save_calls' = <<>>
    /\ cleanup_calls' = 0
    /\ result' = <<>>
    /\ outcome' = "running"

\* an exception leaves generate_image; nothing in this file catches it, so it
\* also leaves app() when app() made the call
Raise ==
    /\ pc' = "done"
    /\ outcome' = "raised"

\* a client calls generate_image itself
Requests ==
    [prompt : Prompts, negative_prompt : NegativePrompts, image : Images,
     guidance_scale : GuidanceScales,
     scheduler : Range(CompatibleClasses) \cup {UnknownScheduler},
     steps : StepCounts, seed : Seeds, num_images : ImageCounts]

generate_image ==
    /\ pc = "idle"
    /\ disk < MaxSaved
    /\ \E r \in Requests :
           EnterGenerateImage(
               [prompt |-> r.prompt, negative_prompt |-> r.negative_prompt,
                image |-> r.image,
                mask |-> [r.image EXCEPT !.data = "mask"],
                guidance_scale |-> r.guidance_scale, scheduler |-> r.scheduler,
                steps |-> r.steps, seed |-> r.seed,
                height |-> r.image.height, width |-> r.image.width,
                num_images |-> r.num_images],
               "direct")
    /\ ui' = None
    /\ app_frame' = None
    /\ gen_calls' = 0
    /\ displayed' = <<>>
    /\ UNCHANGED <<self, disk>>

\* line 69
gen_set_scheduler ==
    /\ pc = "set_scheduler"
    /\ LET r == _set_scheduler(self, args.scheduler)
       IN  IF r.raised
           THEN Raise /\ UNCHANGED self
           ELSE /\ self' = r.self
                /\ pc' = "seed"
                /\ UNCHANGED outcome
    /\ UNCHANGED <<disk, caller, args, generator, num_images, output_images,
                   metadata, _metadata, pipeline_calls, save_calls, cleanup_calls,
                   result, ui, app_frame, gen_calls, displayed>>

\* lines 72-76
gen_seed ==
    /\ pc = "seed"
    /\ generator' = make_generator(self.device, args.seed)
    /\ num_images' = image_count(self.device, num_images)
    /\ pc' = "pipeline"
    /\ UNCHANGED <<self, disk, caller, args, output_images, metadata, _metadata,
                   pipeline_calls, save_calls, cleanup_calls, outcome, result,
                   ui, app_frame, gen_calls, displayed>>

\* lines 78-89: the pipeline runs with the scheduler it holds now; it returns
\* its images or raises
gen_pipeline ==
    /\ pc = "pipeline"
    /\ LET kw == pipeline_kwargs(args, generator, num_images)
       IN  /\ pipeline_calls' =
                  Append(pipeline_calls, [kwargs |-> kw, scheduler |-> self.pipeline.scheduler])
           /\ \E ok \in BOOLEAN :
                  IF ok
                  THEN /\ output_images' = pipeline_images(kw)
                       /\ pc' = "metadata"
                       /\ UNCHANGED outcome
                  ELSE Raise /\ UNCHANGED output_images
    /\ UNCHANGED <<self, disk, caller, args, generator, num_images, metadata,
                   _metadata, save_calls, cleanup_calls, result, ui, app_frame,
                   gen_calls, displayed>>

\* lines 90-100
gen_metadata ==
    /\ pc = "metadata"
    /\ metadata' = json_dumps(metadata_dict(args))
    /\ _metadata' = PngInfo_add_text(<<>>, "inpainting", metadata')
    /\ pc' = "save"
    /\ UNCHANGED <<self, disk, caller, args, generator, num_images, output_images,
                   pipeline_calls, save_calls, cleanup_calls, outcome, result,
                   ui, app_frame, gen_calls, displayed>>

\* utils.save_images writes one file per image, each carrying the metadata
\* text; it may fail after writing only some of them
save_images(kw, written) ==
    [raised |-> written < Len(kw.images), files |-> written]

\* lines 102-107
gen_save ==
    /\ pc = "save"
    /\ LET kw == save_images_kwargs(output_images, metadata, self)
       IN  /\ save_calls' = Append(save_calls, kw)
           /\ \E written \in 0..Len(kw.images) :
                  LET r == save_images(kw, written)
                  IN  /\ disk' = disk + r.files
                      /\ IF r.raised
                         THEN Raise
                         ELSE pc' = "cleanup" /\ UNCHANGED outcome
    /\ UNCHANGED <<self, caller, args, generator, num_images, output_images,
                   metadata, _metadata, pipeline_calls, cleanup_calls, result,
                   ui, app_frame, gen_calls, displayed>>

\* lines 109-110
gen_cleanup ==
    /\ pc = "cleanup"
    /\ cleanup_calls' = cleanup_calls + 1
    /\ pc' = "return"
    /\ UNCHANGED <<self, disk, caller, args, generator, num_images, output_images,
                   metadata, _metadata, pipeline_calls, save_calls, outcome, result,
                   ui, app_frame, gen_calls, displayed>>

\* line 111
gen_return ==
    /\ pc = "return"
    /\ result' = << [images |-> output_images, metadata |-> _metadata] >>
    /\ IF caller = "app"
       THEN pc' = "display" /\ UNCHANGED outcome
       ELSE pc' = "done" /\ outcome' = "returned"
    /\ UNCHANGED <<self, disk, caller, args, generator, num_images, output_images,
                   metadata, _metadata, pipeline_calls, save_calls, cleanup_calls,
                   ui, app_frame, gen_calls, displayed>>

(***************************************************************************)
(* app(): one run of the Streamlit script.                                 *)
(***************************************************************************)
\* what st.file_uploader returns: None, or a file that is an image of some
\* size, or a file PIL cannot read
UploadedFiles ==
    [valid : {TRUE}, mode : {"RGBA"}, width : Dims, height : Dims]
        \cup {[valid |-> FALSE, mode |-> "", width |-> 0, height |-> 0]}

\* what st_canvas returns: nothing yet, or the canvas pixels (height x width
\* x RGBA) with the list of drawn objects
NoCanvasResult == [image_data |-> None, json_data |-> None]
CanvasResults ==
    {NoCanvasResult}
        \cup {[image_data |-> [shape |-> <<canvas_height, canvas_width, 4>>],
               json_data  |-> [objects |-> n]] : n \in 0..1}

\* Image.open(uploaded_file).convert("RGB"), line 146
Image_open(file) ==
    [raised |-> ~file.valid,
     image  |-> [mode |-> file.mode, width |-> file.width, height |-> file.height,
                 data |-> "upload"]]

\* lines 130-134: the dict's keys, EulerAncestralDiscreteScheduler moved first
available_schedulers(obj) ==
    LET keys == obj._compatible_schedulers
    IN  IF EulerName \in Range(keys)
        THEN <<EulerName>> \o SelectSeq(keys, LAMBDA n : n # EulerName)
        ELSE keys

\* the condition without the Generate button
should_generate_without_submit(canvas_result, pil_image, submit) ==
    /\ canvas_result.image_data # None
    /\ pil_image # None
    /\ canvas_result.json_data.objects > 0

\* lines 161-166
should_generate(canvas_result, pil_image, submit) ==
    /\ canvas_result.image_data # None
    /\ pil_image # None
    /\ canvas_result.json_data.objects > 0
    /\ submit

\* line 147: img_height, img_width = pil_image.size
unpack_size(pil_image) ==
    [img_height |-> Image_size(pil_image)[1], img_width |-> Image_size(pil_image)[2]]

\* lines 167-171: the canvas alpha channel as an image, resized
make_mask(canvas_result, img_width, img_height) ==
    LET shape == canvas_result.image_data.shape
        mask_npy == <<shape[1], shape[2]>>
        mask_pil == Image_convert(Image_fromarray(mask_npy, "canvas alpha"), "RGB")
    IN  Image_resize(mask_pil, <<img_width, img_height>>)

\* a run that ends without calling generate_image
AppEnds(how) ==
    /\ pc' = "done"
    /\ outcome' = how
    /\ gen_calls' = 0
    /\ NoCallNext

app ==
    /\ pc = "idle"
    /\ disk < MaxSaved
    /\ \E prompt \in Prompts, negative_prompt \in NegativePrompts,
          uploaded_file \in {None} \cup UploadedFiles,
          scheduler \in Range(available_schedulers(self)),
          guidance_scale \in GuidanceScales, n \in ImageCounts,
          steps \in StepCounts, seed \in Seeds,
          canvas_result \in CanvasResults, submit \in BOOLEAN :
           /\ ui' = [uploaded_file |-> uploaded_file, canvas_result |-> canvas_result,
                     submit |-> submit]
           /\ IF uploaded_file = None
              THEN app_frame' = None /\ AppEnds("returned")
              ELSE LET opened == Image_open(uploaded_file)
                       pil_image == Image_convert(opened.image, "RGB")
                       size == unpack_size(pil_image)
                   IN  IF opened.raised
                       THEN app_frame' = None /\ AppEnds("raised")
                       ELSE IF should_generate(canvas_result, pil_image, submit)
                       THEN LET mask_pil == make_mask(canvas_result, size.img_width,
                                                      size.img_height)
                            IN  /\ app_frame' = [pil_image |-> pil_image,
                                                 img_height |-> size.img_height,
                                                 img_width |-> size.img_width,
                                                 mask_pil |-> mask_pil]
                                /\ gen_calls' = 1
                                /\ EnterGenerateImage(
                                       [prompt |-> prompt,
                                        negative_prompt |-> negative_prompt,
                                        image |-> pil_image, mask |-> mask_pil,
                                        guidance_scale |-> guidance_scale,
                                        scheduler |-> scheduler, steps |-> steps,
                                        seed |-> seed, height |-> size.img_height,
                                        width |-> size.img_width, num_images |-> n],
                                       "app")
                       ELSE /\ app_frame' = [pil_image |-> pil_image,
                                             img_height |-> size.img_height,
                                             img_width |-> size.img_width,
                                             mask_pil |-> None]
                            /\ AppEnds("returned")
    /\ displayed' = <<>>
    /\ UNCHANGED <<self, disk>>

\* line 187, after generate_image returned to app()
app_display ==
    /\ pc = "display"
    /\ displayed' = << [images |-> result[1].images, metadata |-> result[1].metadata] >>
    /\ pc' = "done"
    /\ outcome' = "returned"
    /\ UNCHANGED <<self, disk, caller, args, generator, num_images, output_images,
                   metadata, _metadata, pipeline_calls, save_calls, cleanup_calls,
                   result, ui, app_frame, gen_calls>>

\* control is back at the top level: the finished call's frame and what it
\* returned or raised are dropped; the instance and the files stay
end_of_call ==
    /\ pc = "done"
    /\ pc' = "idle"
    /\ outcome' = "none"
    /\ NoCallNext
    /\ ui' = None
    /\ app_frame' = None
    /\ gen_calls' = 0
    /\ displayed' = <<>>
    /\ UNCHANGED <<self, disk>>

Next ==
    \/ generate_image
    \/ gen_set_scheduler
    \/ gen_seed
    \/ gen_pipeline
    \/ gen_metadata
    \/ gen_save
    \/ gen_cleanup
    \/ gen_return
    \/ app
    \/ app_display
    \/ end_of_call

Spec == Init /\ [][Next]_vars

(***************************************************************************)
(* The claims.                                                             *)
(***************************************************************************)
\* the JSON text carried by a PngInfo object under the key "inpainting"
EmbeddedText(info) == info[1][2]

\* the items a decoded record must hold for the call's arguments a
DecodesTo(text, a) ==
    LET d == json_loads(text)
    IN  /\ d.ok
        /\ \A k \in {"prompt", "negative_prompt", "guidance_scale", "scheduler",
                     "steps", "seed"} : HasKey(d.items, k)
        /\ GetItem(d.items, "prompt") = PyStr(a.prompt)
        /\ GetItem(d.items, "negative_prompt") = PyStr(a.negative_prompt)
        /\ GetItem(d.items, "guidance_scale") = PyFloat(a.guidance_scale)
        /\ GetItem(d.items, "scheduler") = PyStr(a.scheduler)
        /\ GetItem(d.items, "steps") = PyInt(a.steps)
        /\ GetItem(d.items, "seed") = PyInt(a.seed)

\* C1: metadata round-trip.  Whenever generate_image has returned, the JSON
\* text in the returned PngInfo decodes to prompt, negative_prompt,
\* guidance_scale, scheduler, steps and seed equal to this call's arguments,
\* and the text handed to save_images is that same text.
C1_MetadataRoundTrip ==
    result # <<>> =>
        /\ Len(result[1].metadata) = 1
        /\ result[1].metadata[1][1] = "inpainting"
        /\ DecodesTo(EmbeddedText(result[1].metadata), args)
        /\ Len(save_calls) = 1
        /\ save_calls[1].metadata = EmbeddedText(result[1].metadata)

\* a call returned, after an earlier call had saved files, for a prompt with
\* characters JSON must escape
C1_Witness ==
    /\ result # <<>>
    /\ disk > Len(output_images)
    /\ args.prompt = "say \"hi\" \\o/"
    /\ args.negative_prompt = "blur\"ry"

\* C2: mask resizing preserves the source image's pixel dimensions.  The mask
\* app() passes to generate_image is as wide and as high as the uploaded image.
C2_MaskHasImageSize ==
    (caller = "app" /\ app_frame # None) =>
        /\ args.mask.width = app_frame.pil_image.width
        /\ args.mask.height = app_frame.pil_image.height

\* the scheduler a freshly constructed instance installs for a name
FreshScheduler(name) ==
    _set_scheduler(Inpainting(self.model, self.device, self.output_path), name)
        .self.pipeline.scheduler

\* C3: scheduler selection is idempotent for a given name.  In every state,
\* for every compatible name, selecting it twice gives the instance that
\* selecting it once gives, and the scheduler installed is the one a fresh
\* instance would install, whatever was selected before.
C3_SchedulerIdempotent ==
    \A name \in DOMAIN self.compatible_schedulers :
        LET once == _set_scheduler(self, name)
            twice == _set_scheduler(once.self, name)
        IN  /\ ~once.raised
            /\ ~twice.raised
            /\ twice.self = once.self
            /\ once.self.pipeline.scheduler.class = self.compatible_schedulers[name]
            /\ once.self.pipeline.scheduler = FreshScheduler(name)

\* a name is about to be selected while the pipeline holds another scheduler,
\* left by an earlier call
C3_Witness ==
    /\ pc = "set_scheduler"
    /\ args.scheduler = "PNDMScheduler"
    /\ self.pipeline.scheduler.class = EulerName

\* C4: the scheduler is swapped before each inference call.  Every pipeline
\* invocation of a generate_image call ran with the scheduler named by that
\* call's scheduler argument, built from the compatible class of that name
\* and the configuration stored at construction.
C4_SchedulerSwappedBeforeInference ==
    \A i \in 1..Len(pipeline_calls) :
        /\ args.scheduler \in DOMAIN self.compatible_schedulers
        /\ pipeline_calls[i].scheduler.class = args.scheduler
        /\ pipeline_calls[i].scheduler =
               from_config(self.compatible_schedulers[args.scheduler], self.scheduler_config)

\* the pipeline was invoked in a call that follows a completed call
C4_Witness ==
    /\ Len(pipeline_calls) = 1
    /\ disk > 0
    /\ args.scheduler = "DDIMScheduler"
    /\ pc = "metadata"

\* C5: accelerator memory is released after each inference call.  When
\* control is back with the caller of a generate_image call that invoked the
\* pipeline, the cleanup step has run, whether the call returned or raised.
C5_CleanupAfterInference ==
    (pc \in {"display", "done"} /\ pipeline_calls # <<>>) => cleanup_calls >= 1

\* what every pipeline invocation is given, but for the image count
ForwardedAsSupplied(kw) ==
    /\ kw.prompt = args.prompt
    /\ kw.negative_prompt = args.negative_prompt
    /\ kw.image = args.image
    /\ kw.mask_image = args.mask
    /\ kw.num_inference_steps = args.steps
    /\ kw.guidance_scale = args.guidance_scale
    /\ kw.height = args.height
    /\ kw.width = args.width
    /\ kw.generator.seed = args.seed

\* C6 as stated: on every device type every parameter, the image count
\* included, reaches the pipeline as supplied.
C6_ForwardedOnEveryDevice ==
    \A i \in 1..Len(pipeline_calls) :
        /\ ForwardedAsSupplied(pipeline_calls[i].kwargs)
        /\ pipeline_calls[i].kwargs.num_images_per_prompt = args.num_images

\* C6 amended: every parameter reaches the pipeline as supplied and the
\* generator is seeded with the supplied seed, on every device type; the
\* image count is the supplied one on cuda and cpu and is 1 on mps.
C6_ForwardedButCountOnMps ==
    \A i \in 1..Len(pipeline_calls) :
        /\ ForwardedAsSupplied(pipeline_calls[i].kwargs)
        /\ pipeline_calls[i].kwargs.num_images_per_prompt =
               (IF self.device = "mps" THEN 1 ELSE args.num_images)
        /\ pipeline_calls[i].kwargs.generator.device =
               (IF self.device = "mps" THEN "cpu" ELSE self.device)

\* the pipeline was invoked on mps for a call that asked for two images
C6_Witness ==
    /\ Len(pipeline_calls) = 1
    /\ self.device = "mps"
    /\ args.num_images = 2
    /\ args.image.width # args.image.height

\* C7: configuration and pipeline handle are fixed after construction.  No
\* step of generate_image or app changes anything of the instance but the
\* pipeline's current scheduler.
C7_ConfigurationFixed ==
    [][ [self' EXCEPT !.pipeline.scheduler = self.pipeline.scheduler] = self ]_vars

\* calls have succeeded and failed, and the scheduler has been swapped
C7_Witness ==
    /\ pc = "done"
    /\ outcome = "raised"
    /\ disk > 0
    /\ self.pipeline.scheduler.class = "DDIMScheduler"

\* C8: failures propagate with no recovery and no partial output.  A call
\* with an unknown scheduler name ends raised at once: the pipeline is not
\* invoked, its scheduler is as before, nothing is saved or returned.  A call
\* whose pipeline invocation raises ends raised after that one invocation,
\* with nothing saved or returned.  Files are written by the saving step
\* only, and a raised call is followed by no further step of it.
C8_FailuresPropagate ==
    [][ /\ (pc = "set_scheduler" /\ args.scheduler \notin DOMAIN self.compatible_schedulers)
               => /\ pc' = "done" /\ outcome' = "raised"
                  /\ self' = self
                  /\ pipeline_calls' = <<>> /\ save_calls' = <<>>
                  /\ disk' = disk /\ result' = <<>> /\ displayed' = <<>>
        /\ (pc = "pipeline" /\ pc' # "metadata")
               => /\ pc' = "done" /\ outcome' = "raised"
                  /\ Len(pipeline_calls') = 1 /\ save_calls' = <<>>
                  /\ disk' = disk /\ result' = <<>> /\ displayed' = <<>>
        /\ disk' # disk => pc = "save"
        /\ (pc = "done" /\ outcome = "raised") => (pc' = "idle" /\ disk' = disk)
      ]_vars

\* a call with an unknown scheduler name has ended, the pipeline still
\* holding the scheduler an earlier call installed
C8_Witness ==
    /\ pc = "done"
    /\ outcome = "raised"
    /\ args # None
    /\ args.scheduler = UnknownScheduler
    /\ self.pipeline.scheduler.class = EulerName
    /\ disk > 0

\* the user uploaded a file that is an image, drew on the canvas and pressed
\* Generate
UserSubmittedMask ==
    /\ ui.uploaded_file # None
    /\ ui.uploaded_file.valid
    /\ ui.canvas_result.image_data # None
    /\ ui.canvas_result.json_data.objects > 0
    /\ ui.submit

\* C9: inference gating in the UI.  In a run of app, generate_image is
\* invoked at most once, and exactly when an image file is uploaded, the
\* canvas has image data with a drawn object, and Generate was pressed;
\* otherwise no inference runs and nothing is saved.
C9_InferenceGating ==
    ui # None =>
        /\ gen_calls \in {0, 1}
        /\ (gen_calls = 1) <=> UserSubmittedMask
        /\ (gen_calls = 1) <=> (caller = "app")
        /\ gen_calls = 0 => (pipeline_calls = <<>> /\ save_calls = <<>> /\ displayed = <<>>)

\* a run of app invoked generate_image and displayed its images
C9_Witness ==
    /\ ui # None
    /\ gen_calls = 1
    /\ displayed # <<>>

\* C10: dimensions handed to inference match the source image.  app calls
\* generate_image with height the image's height and width its width.
C10_DimensionsMatchImage ==
    caller = "app" =>
        /\ args.height = args.image.height
        /\ args.width = args.image.width

====
